---- MODULE Spec2Model ----
(***************************************************************************)
(* A model of js/stringify.js (Quickdraw): the image-to-binary-vector      *)
(* pipeline (ImageProcess), the sequential dataset assembly (FileHandler), *)
(* the text view of a dataset (dataToString in the worker and in Emote),   *)
(* the drawing board (DrawingCanvas) and the page's handlers (Emote).      *)
(*                                                                         *)
(* The specifications of the module share its variables:                   *)
(*   Spec / FairSpec  batches of files handed to one FileHandler, whose    *)
(*                    ImageProcess instances share one image element;      *)
(*   PixelSpec        one ImageProcess extracting one image;               *)
(*   StringSpec       the worker's onmessage and Emote's dataToString;     *)
(*   BoardSpec        the DrawingCanvas and one capture of the board;      *)
(*   ShareSpec        batches and captures on one image element;           *)
(*   EmoteSpec        train, test, the settings and the data callbacks.    *)
(*                                                                         *)
(* Strings are sequences of one-character strings, so that split and       *)
(* JSON.stringify are computed and not assumed.  Indices are 0-based where *)
(* the code's are; TLA+ sequences are 1-based, hence the "+ 1".            *)
(***************************************************************************)
EXTENDS Integers, Sequences, FiniteSets, TLC

\* ------------------------------------------------------------------ bounds

\* Batches submitted to the one FileHandler.
MaxBatches == 2
\* Files submitted in total, over all batches.
MaxFiles == 3
\* Pixels (width * height) of an image handed to ImageProcess in PixelSpec.
MaxPixels == 4
\* Width and height of the offscreen render canvas (300 x 150 in a browser,
\* scaled down with the images).
CanvasW == 2
CanvasH == 2
\* Samples of a dataset handed to dataToString in StringSpec.
MaxSamples == 2
\* Messages posted to the worker in StringSpec.
MaxMessages == 2
\* Width of the drawing canvas (64 in the page); it has two rows.
BoardW == 2

\* ------------------------------------------------------------- JS helpers

None == [none |-> TRUE]

RECURSIVE Concat(_)
\* The concatenation of a sequence of sequences.
Concat(ss) == IF ss = <<>> THEN <<>> ELSE Head(ss) \o Concat(Tail(ss))

RECURSIVE SplitFrom(_, _, _)
\* String.prototype.split(sep) on a single-character separator: s is what is
\* left to scan and acc the finished pieces; the next piece ends before the
\* first separator of s, or with s when it holds none.
SplitFrom(s, sep, acc) ==
    IF \A j \in 1 .. Len(s) : s[j] # sep
    THEN Append(acc, s)
    ELSE LET i == CHOOSE j \in 1 .. Len(s) :
                      s[j] = sep /\ \A k \in 1 .. j - 1 : s[k] # sep
         IN SplitFrom(SubSeq(s, i + 1, Len(s)), sep, Append(acc, SubSeq(s, 1, i - 1)))

split(s, sep) == SplitFrom(s, sep, <<>>)

\* The property name whose assignment on a plain object goes to the
\* Object.prototype.__proto__ setter instead of creating an own property.
ProtoKey == <<"_", "_", "p", "r", "o", "t", "o", "_", "_">>

\* {} : an object without own properties, as a function from keys to values.
EmptyObject == [k \in {} |-> 0]

\* obj[key] = val on a plain object.  The __proto__ setter ignores a value
\* that is neither an object nor null, so no own property appears.
SetProperty(obj, key, val) ==
    IF key = ProtoKey THEN obj
    ELSE [k \in (DOMAIN obj) \cup {key} |-> IF k = key THEN val ELSE obj[k]]

\* ------------------------------------------------------ images and canvas

\* The intensity from which a red or green channel counts as light (line 187).
Threshold == 200

Pixel(r, g, b, a) == [r |-> r, g |-> g, b |-> b, a |-> a]

White       == Pixel(255, 255, 255, 255)
Black       == Pixel(0, 0, 0, 255)
RedAtEdge   == Pixel(200, 0, 0, 255)
GreenAtEdge == Pixel(0, 200, 255, 255)
BelowEdge   == Pixel(199, 199, 255, 255)
Clear       == Pixel(255, 255, 255, 0)

\* The pixels of the images of PixelSpec: one light by red and green, one by
\* its red alone, one by its green alone, one dark with blue and alpha at
\* 255, one transparent.
Palette == {White, RedAtEdge, GreenAtEdge, BelowEdge, Clear}

\* A transparent-black pixel: what a new canvas holds, and what getImageData
\* returns outside the canvas.
TransparentBlack == Pixel(0, 0, 0, 0)

\* The cells (x, y) of a w x h raster.
Cells(w, h) == (0 .. w - 1) \X (0 .. h - 1)

\* An image: width, height and its pixels by cell.
Image(w, h, px) == [w |-> w, h |-> h, px |-> px]

\* A uniformly coloured image.
Uniform(w, h, p) == Image(w, h, [c \in Cells(w, h) |-> p])

\* document.createElement("canvas"): every cell transparent black.
NewCanvas == [c \in Cells(CanvasW, CanvasH) |-> TransparentBlack]

\* renderContext.drawImage(img, 0, 0): source-over compositing of the image
\* at the origin, clipped to the canvas.  Alpha is 0 or 255, so a pixel
\* either replaces the cell or leaves it as it was.  An image without
\* pixels draws nothing.
drawImage(surface, img) ==
    [c \in DOMAIN surface |->
        IF c[1] < img.w /\ c[2] < img.h /\ img.px[c].a > 0
        THEN img.px[c] ELSE surface[c]]

\* The four bytes getImageData yields for cell c: the cell's colour, or
\* transparent black for a transparent cell and outside the canvas.
ReadCell(surface, c) ==
    IF c \in DOMAIN surface /\ surface[c].a > 0
    THEN <<surface[c].r, surface[c].g, surface[c].b, surface[c].a>>
    ELSE <<0, 0, 0, 0>>

\* renderContext.getImageData(0, 0, w, h).data: the RGBA bytes of the w x h
\* rectangle at the origin, row by row.  Only called with w > 0 and h > 0.
getImageData(surface, w, h) ==
    Concat([k \in 1 .. w * h |-> ReadCell(surface, <<(k - 1) % w, (k - 1) \div w>>)])

\* getImageData throws IndexSizeError when the width or the height is 0.
IndexSizeError(w, h) == w = 0 \/ h = 0

\* imgData[n] in the code: n is 0-based.
At(imgData, n) == imgData[n + 1]

\* PixelBit with ">" for ">=": a channel at the threshold counts as dark.
PixelBit_strict(imgData, n, flip) ==
    IF At(imgData, n) > Threshold \/ At(imgData, n + 1) > Threshold
    THEN (IF flip THEN 1 ELSE 0)
    ELSE (IF flip THEN 0 ELSE 1)

\* The bit pushed for the pixel whose bytes start at n (lines 187-198).
PixelBit(imgData, n, flip) ==
    IF At(imgData, n) >= Threshold \/ At(imgData, n + 1) >= Threshold
    THEN (IF flip THEN 1 ELSE 0)
    ELSE (IF flip THEN 0 ELSE 1)

\* The byte offset of pixel (x, y) (line 185).
PixelOffset(x, y, w) == (y * w + x) * 4

RECURSIVE RowLoop(_, _, _, _, _, _)
\* The inner loop (lines 184-199): x from its current value up to w - 1.
RowLoop(imgData, x, y, w, flip, pixelData) ==
    IF x < w
    THEN RowLoop(imgData, x + 1, y, w, flip,
                 Append(pixelData, PixelBit(imgData, PixelOffset(x, y, w), flip)))
    ELSE pixelData

RECURSIVE PixelLoop(_, _, _, _, _, _)
\* The outer loop (lines 183-200): y from its current value up to h - 1.
PixelLoop(imgData, y, w, h, flip, pixelData) ==
    IF y < h
    THEN PixelLoop(imgData, y + 1, w, h, flip,
                   RowLoop(imgData, 0, y, w, flip, pixelData))
    ELSE pixelData

\* ImageProcess.loadData for the image the element holds: the surface after
\* drawImage, whether getImageData threw, and the vector passed to onFinish
\* (none when it threw).
loadData(img, surface, flip) ==
    LET drawn == drawImage(surface, img) IN
    IF IndexSizeError(img.w, img.h)
    THEN [surface |-> drawn, threw |-> TRUE, pixelData |-> <<>>]
    ELSE [surface |-> drawn, threw |-> FALSE,
          pixelData |-> PixelLoop(getImageData(drawn, img.w, img.h),
                                  0, img.w, img.h, flip, <<>>)]

\* ------------------------------------------------------------------ files

Str_cat   == <<"c", "a", "t", ".", "v", "2", ".", "p", "n", "g">>
Str_dog   == <<"d", "o", "g">>
Str_proto == ProtoKey \o <<".", "p", "n", "g">>
Str_bad   == <<"b", "a", "d", ".", "p", "n", "g">>
Str_gone  == <<".", "g", "o", "n", "e">>

\* A File: its name, whether FileReader can read it, whether the image
\* element can decode it, and the image it decodes to.
File(name, readable, decodable, image) ==
    [name |-> name, readable |-> readable, decodable |-> decodable, image |-> image]

\* The files a user may drop: three images, a corrupt one and an unreadable
\* one.
FileCatalogue ==
    [ cat   |-> File(Str_cat, TRUE, TRUE, Uniform(1, 1, White)),
      dog   |-> File(Str_dog, TRUE, TRUE, Uniform(1, 1, Black)),
      proto |-> File(Str_proto, TRUE, TRUE, Uniform(1, 1, Clear)),
      bad   |-> File(Str_bad, TRUE, FALSE, Uniform(0, 0, Clear)),
      gone  |-> File(Str_gone, FALSE, FALSE, Uniform(0, 0, Clear)) ]

\* The FileLists of at most n files, each file named by its catalogue entry.
FileLists(n) == UNION {[1 .. k -> DOMAIN FileCatalogue] : k \in 0 .. n}

Batches == 1 .. MaxBatches

\* --------------------------------------------------------------- variables

VARIABLES
    \* FileHandler.handleFiles, one closure per batch
    files,        \* files[b]: the FileList handed to handleFiles
    started,      \* started[b]: handleFiles(files[b]) has been called
    index,        \* index[b]: the closure's index
    images,       \* images[b]: the closure's images array
    canvas,       \* canvas[b]: renderCanvas of the batch's ImageProcess
    reads,        \* readAsDataURL calls in flight: [b, i] for files[b][i]
    \* the image element the FileHandler was constructed with
    imgOnload,    \* the batch whose loadData img.onload calls, or 0
    imgPending,   \* the source being loaded since img.src was set, or None
    imgCurrent,   \* the source of the image the element holds, or None
    \* the FileHandler's onFinish
    delivered,    \* the calls of onFinish: [b, data], in order
    \* history
    extracted,    \* extracted[b]: [src, pixelData] per vector handed to finishFile
    errors,       \* sources whose read or decode ended in an error event
    \* ImageProcess on its own (PixelSpec)
    pxImage, pxFlip, pxSurface, pxCalls, pxPc,
    \* the stringify worker and Emote.dataToString (StringSpec)
    strData,      \* the Dataset posted and rendered
    inbox,        \* the messages posted to the worker and not yet handled
    posted,       \* the texts the worker has posted back
    handled,      \* the names of the messages the worker has handled
    emoteOut,     \* the texts Emote.dataToString has returned
    \* DrawingCanvas (BoardSpec)
    board,        \* the pixels of the drawing canvas, by cell
    drawing,      \* DrawingCanvas's drawing
    erasing,      \* DrawingCanvas's erasing
    \* Emote (EmoteSpec)
    network,      \* Emote's network: None or a Network
    trainingData, \* Emote's trainingData: None or Data(samples)
    testData,     \* Emote's testData: None or Vec(vector)
    layers, errorThreshold, iterations, networkChanged, useGpu,
    statusText,   \* innerHTML of the element "stats"
    outputText,   \* innerHTML of the element "output"
    stats,        \* what the global name stats refers to
    uncaught,     \* the exception that ended the last Emote handler, or ""
    \* history
    testFrom      \* the board at the processBoardData call testData came
                  \* from, and whether it had changed by the load event

fileVars == <<files, started, index, images, canvas, reads, imgOnload,
              imgPending, imgCurrent, delivered, extracted, errors>>
pixelVars == <<pxImage, pxFlip, pxSurface, pxCalls, pxPc>>
stringVars == <<strData, inbox, posted, handled, emoteOut>>
boardVars == <<board, drawing, erasing>>
settingVars == <<layers, errorThreshold, iterations, useGpu>>
emoteVars == <<network, trainingData, testData, settingVars, networkChanged,
               statusText, outputText, stats, uncaught, testFrom>>
vars == <<fileVars, pixelVars, stringVars, boardVars, emoteVars>>

\* A source: the data URL readAsDataURL produces for files[b][i].
Source(b, i) == [b |-> b, i |-> i]
FileAt(fs, i) == FileCatalogue[fs[i + 1]]
FileOf(src) == FileAt(files[src.b], src.i)

\* ------------------------------------------------------------ FileHandler

\* createImageJSON (lines 239-247).
createImageJSON(pixelData, className) ==
    [input |-> pixelData, output |-> SetProperty(EmptyObject, className, 1)]

\* files[index].name.split(".")[0] (line 258).
ClassNameOf(file) == split(file.name, ".")[1]

\* handleFile finishing one file early: "index + 1 < files.length".
handleFile_early(b, idx, fs, imgs) ==
    IF idx + 1 < Len(fs)
    THEN [reads |-> {[b |-> b, i |-> idx]}, finish |-> <<>>]
    ELSE [reads |-> {}, finish |-> <<[b |-> b, data |-> imgs]>>]

\* handleFile reading every remaining file at once instead of the next one.
handleFile_readAll(b, idx, fs, imgs) ==
    IF idx < Len(fs)
    THEN [reads |-> {[b |-> b, i |-> i] : i \in idx .. Len(fs) - 1}, finish |-> <<>>]
    ELSE [reads |-> {}, finish |-> <<[b |-> b, data |-> imgs]>>]

\* handleFile (lines 249-255) with the closure's index, files and images:
\* the reads it starts and the onFinish calls it makes.
handleFile(b, idx, fs, imgs) ==
    IF idx < Len(fs)
    THEN [reads |-> {Source(b, idx)}, finish |-> <<>>]
    ELSE [reads |-> {}, finish |-> <<[b |-> b, data |-> imgs]>>]

\* images.unshift(sample) for images.push(sample).
push_unshift(imgs, sample) == <<sample>> \o imgs

\* The images array after images.push(sample) (line 259).
push(imgs, sample) == Append(imgs, sample)

\* finishFile without its "index++".
finishFile_noAdvance(b, pixelData, idx, fs, imgs) ==
    IF idx >= Len(fs)
    THEN [threw |-> TRUE, images |-> imgs, index |-> idx,
          next |-> [reads |-> {}, finish |-> <<>>]]
    ELSE LET pushed == push(imgs, createImageJSON(pixelData, ClassNameOf(FileAt(fs, idx))))
         IN [threw |-> FALSE, images |-> pushed, index |-> idx,
             next |-> handleFile(b, idx, fs, pushed)]

\* finishFile (lines 257-263): files[index] is undefined past the end, and
\* reading its name throws.
finishFile(b, pixelData, idx, fs, imgs) ==
    IF idx >= Len(fs)
    THEN [threw |-> TRUE, images |-> imgs, index |-> idx,
          next |-> [reads |-> {}, finish |-> <<>>]]
    ELSE LET pushed == push(imgs, createImageJSON(pixelData, ClassNameOf(FileAt(fs, idx))))
         IN [threw |-> FALSE, images |-> pushed, index |-> idx + 1,
             next |-> handleFile(b, idx + 1, fs, pushed)]

\* loadImage setting img.src and leaving the onload of a batch that set it
\* before.
loadImage_srcOnly(owner, source) ==
    [onload |-> IF imgOnload \in Batches /\ owner \in Batches
                THEN imgOnload ELSE owner,
     pending |-> source]

\* loadImage (lines 173-176): img.onload and img.src are set together;
\* setting src replaces a load that is still pending.
loadImage(owner, source) == [onload |-> owner, pending |-> source]

\* The onFinish calls an error event of the FileReader leads to: the reader
\* has only an onload handler (line 265).
readerOnError(b, imgs) == <<>>

\* An image error handler that gives up and hands over what was recorded.
imgOnError_deliver(b, imgs) == <<[b |-> b, data |-> imgs]>>

\* The onFinish calls an error event of the image element leads to: the
\* element has only an onload handler (line 174).
imgOnError(b, imgs) == <<>>

\* The flip argument of the ImageProcess of a batch (line 235: omitted).
BatchFlip == FALSE

FilesSubmitted == LET RECURSIVE Sum(_)
                      Sum(b) == IF b = 0 THEN 0 ELSE Len(files[b]) + Sum(b - 1)
                  IN Sum(MaxBatches)

FileInit ==
    /\ files = [b \in Batches |-> <<>>]
    /\ started = [b \in Batches |-> FALSE]
    /\ index = [b \in Batches |-> 0]
    /\ images = [b \in Batches |-> <<>>]
    /\ canvas = [b \in Batches |-> NewCanvas]
    /\ reads = {}
    /\ imgOnload = 0
    /\ imgPending = None
    /\ imgCurrent = None
    /\ delivered = <<>>
    /\ extracted = [b \in Batches |-> <<>>]
    /\ errors = {}

\* onSelectFiles (lines 275-277): handleFiles(fs) creates the closure of
\* batch b and calls handleFile.  Batches are numbered as they are submitted.
onSelectFiles(b, fs) ==
    /\ ~started[b]
    /\ (IF b = 1 THEN TRUE ELSE started[b - 1])
    /\ LET hf == handleFile(b, 0, fs, <<>>) IN
        /\ files' = [files EXCEPT ![b] = fs]
        /\ started' = [started EXCEPT ![b] = TRUE]
        /\ index' = [index EXCEPT ![b] = 0]
        /\ images' = [images EXCEPT ![b] = <<>>]
        /\ canvas' = [canvas EXCEPT ![b] = NewCanvas]
        /\ reads' = reads \cup hf.reads
        /\ delivered' = delivered \o hf.finish
    /\ UNCHANGED <<imgOnload, imgPending, imgCurrent, extracted, errors>>
    /\ UNCHANGED <<pixelVars, stringVars, boardVars, emoteVars>>

\* fileReader.onload (line 265): the read of r succeeded, and
\* processFileReader hands fileReader.result to loadImage.
fileReaderLoad(r) ==
    /\ r \in reads
    /\ FileOf(r).readable
    /\ LET li == loadImage(r.b, r) IN
        /\ imgOnload' = li.onload
        /\ imgPending' = li.pending
    /\ reads' = reads \ {r}
    /\ UNCHANGED <<files, started, index, images, canvas, imgCurrent,
                   delivered, extracted, errors>>
    /\ UNCHANGED <<pixelVars, stringVars, boardVars, emoteVars>>

\* The read of r failed: the error event finds no handler.
fileReaderError(r) ==
    /\ r \in reads
    /\ ~FileOf(r).readable
    /\ reads' = reads \ {r}
    /\ errors' = errors \cup {r}
    /\ delivered' = delivered \o readerOnError(r.b, images[r.b])
    /\ UNCHANGED <<files, started, index, images, canvas, imgOnload,
                   imgPending, imgCurrent, extracted>>
    /\ UNCHANGED <<pixelVars, stringVars, boardVars, emoteVars>>

\* The load event of the image element: img.onload calls loadData of the
\* ImageProcess that set it (line 174), which hands the vector to finishFile
\* of its batch (line 235).
imgLoad ==
    /\ imgPending # None
    /\ imgPending.b \in Batches
    /\ FileOf(imgPending).decodable
    /\ LET o == imgOnload
           ld == loadData(FileOf(imgPending).image, canvas[o], BatchFlip)
           ff == finishFile(o, ld.pixelData, index[o], files[o], images[o])
       IN /\ canvas' = [canvas EXCEPT ![o] = ld.surface]
          /\ IF ld.threw \/ ff.threw
             THEN UNCHANGED <<index, images, reads, delivered, extracted>>
             ELSE /\ index' = [index EXCEPT ![o] = ff.index]
                  /\ images' = [images EXCEPT ![o] = ff.images]
                  /\ reads' = reads \cup ff.next.reads
                  /\ delivered' = delivered \o ff.next.finish
                  /\ extracted' = [extracted EXCEPT ![o] =
                        Append(@, [src |-> imgPending, pixelData |-> ld.pixelData])]
    /\ imgCurrent' = imgPending
    /\ imgPending' = None
    /\ UNCHANGED <<files, started, imgOnload, errors>>
    /\ UNCHANGED <<pixelVars, stringVars, boardVars, emoteVars>>

\* The error event of the image element: the source does not decode, and
\* the event finds no handler.
imgError ==
    /\ imgPending # None
    /\ imgPending.b \in Batches
    /\ ~FileOf(imgPending).decodable
    /\ errors' = errors \cup {imgPending}
    /\ delivered' = delivered \o imgOnError(imgOnload, images[imgOnload])
    /\ imgCurrent' = None
    /\ imgPending' = None
    /\ UNCHANGED <<files, started, index, images, canvas, reads, imgOnload,
                   extracted>>
    /\ UNCHANGED <<pixelVars, stringVars, boardVars, emoteVars>>

\* The values the other specifications' variables keep under Spec.
PixelIdle ==
    /\ pxImage = None /\ pxFlip = FALSE /\ pxSurface = NewCanvas
    /\ pxCalls = <<>> /\ pxPc = "idle"
StringIdle ==
    /\ strData = <<>> /\ inbox = <<>> /\ posted = <<>> /\ handled = <<>>
    /\ emoteOut = <<>>


\* The rows of the drawing canvas (64 in the page).
BoardRows == {0, 1}
BoardH == Cardinality(BoardRows)
BoardCells == Cells(BoardW, BoardH)

\* fillWhite (lines 82-88): fillRect(0, 0, 64, 64) in white covers the canvas.
fillWhite(bd) == [c \in BoardCells |-> White]

\* trainingData and testData when they are not null.
Data(samples) == [data |-> samples]
Vec(pixelData) == [vec |-> pixelData]

\* DrawingCanvas after its init (lines 79-80, 154).
BoardIdle ==
    /\ board = fillWhite([c \in BoardCells |-> TransparentBlack])
    /\ drawing = FALSE /\ erasing = FALSE

\* Emote after its constructor (lines 346-356), with settings the load
\* listener read from the page (lines 491-494).
EmoteIdle ==
    /\ network = None /\ trainingData = None /\ testData = None
    /\ layers = <<3>> /\ errorThreshold = 5 /\ iterations = 10
    /\ networkChanged = TRUE /\ useGpu = TRUE
    /\ statusText = "" /\ outputText = "" /\ stats = "element"
    /\ uncaught = "" /\ testFrom = <<>>

Init == FileInit /\ PixelIdle /\ StringIdle /\ BoardIdle /\ EmoteIdle

Next ==
    \/ \E b \in Batches : \E fs \in FileLists(MaxFiles - FilesSubmitted) : onSelectFiles(b, fs)
    \/ \E r \in reads : fileReaderLoad(r)
    \/ \E r \in reads : fileReaderError(r)
    \/ imgLoad
    \/ imgError

Spec == Init /\ [][Next]_vars

\* Every read and every load the browser has started ends in its event.
Fairness ==
    /\ WF_vars(\E r \in reads : fileReaderLoad(r))
    /\ WF_vars(\E r \in reads : fileReaderError(r))
    /\ WF_vars(imgLoad)
    /\ WF_vars(imgError)

FairSpec == Init /\ [][Next]_vars /\ Fairness

\* ----------------------------------------------------- claims: FileHandler

\* The onFinish calls made for batch b.
DeliveredTo(b) == SelectSeq(delivered, LAMBDA d : d.b = b)

\* File f can be read and decoded.
Decodes(f) == f.readable /\ f.decodable

\* Batch b is at cursor i: started, not finished, index = i.
ProcessingAt(b, i) == started[b] /\ DeliveredTo(b) = <<>> /\ index[b] = i

\* The reads and decodes of batch b that are in flight.
ReadsInFlight(b) == {r \in reads : r.b = b}
DecodesInFlight(b) == IF imgPending # None /\ imgPending.b = b THEN {imgPending} ELSE {}

\* C1: a Dataset handed to onFinish has exactly one sample per file of its
\* batch, and the i-th sample's input is the vector extracted while the image
\* element held the i-th file of the batch.
C1_SamplesInSubmissionOrder ==
    \A k \in 1 .. Len(delivered) :
        LET d == delivered[k]
            fs == files[d.b]
        IN /\ Len(d.data) = Len(fs)
           /\ Len(extracted[d.b]) = Len(fs)
           /\ \A i \in 1 .. Len(fs) :
                /\ extracted[d.b][i].src = Source(d.b, i - 1)
                /\ d.data[i].input = extracted[d.b][i].pixelData

\* C1 witness: a delivered Dataset of at least two samples whose vectors
\* differ, so that their order shows.
C1_Witness ==
    \E k \in 1 .. Len(delivered) :
        /\ Len(delivered[k].data) >= 2
        /\ delivered[k].data[1].input # delivered[k].data[2].input

\* C2: onFinish is never called twice for a batch, it has been called once
\* when the cursor has reached the batch length, and a call is made only
\* with all N samples recorded: never while fewer than N are.
C2_DeliveredOnceWhenComplete ==
    \A b \in Batches :
        /\ Len(DeliveredTo(b)) <= 1
        /\ (started[b] /\ index[b] = Len(files[b])) => Len(DeliveredTo(b)) = 1
        /\ \A k \in 1 .. Len(DeliveredTo(b)) :
             /\ Len(images[b]) = Len(files[b])
             /\ index[b] = Len(files[b])
             /\ DeliveredTo(b)[k].data = images[b]

\* C2 witness: a batch of at least two files has been delivered.
C2_Witness ==
    \E b \in Batches : Len(files[b]) >= 2 /\ Len(DeliveredTo(b)) = 1

\* C3: a batch has at most one read or decode in flight, and the one in
\* flight is that of the file at the cursor: file i is read only with the
\* samples of files 0 .. i - 1 recorded.
C3_OneInFlight ==
    \A b \in Batches :
        /\ Cardinality(ReadsInFlight(b)) + Cardinality(DecodesInFlight(b)) <= 1
        /\ \A r \in ReadsInFlight(b) \cup DecodesInFlight(b) :
             r.i = Len(images[b]) /\ r.i = index[b]

\* C3 witness: the read of a batch's second file is in flight.
C3_Witness == \E r \in reads : r.i = 1 /\ Len(images[r.b]) = 1

\* C4: a batch with a file that cannot be read or decoded is never handed to
\* onFinish, whatever samples it has recorded.
C4_NoDatasetOnFailure ==
    \A b \in Batches :
        (\E i \in 0 .. Len(files[b]) - 1 : ~Decodes(FileAt(files[b], i)))
            => DeliveredTo(b) = <<>>

\* C4 witness: a file failed after a sample of its batch was recorded, so a
\* partial Dataset exists.
C4_Witness == \E r \in errors : Len(images[r.b]) >= 1

\* C5 (as claimed): after a read or decode error on the file at cursor i the
\* processor is no longer in ProcessingAt(i).
C5_ErrorLeavesProcessing == \A r \in errors : ~ProcessingAt(r.b, r.i)

\* What the code does instead: a batch that met an error stays at its
\* cursor in every later step.
ErrorStaysAtCursor ==
    [][\A r \in errors : ProcessingAt(r.b, r.i) => ProcessingAt(r.b, r.i)']_vars

\* A batch is in a terminal state: its Dataset was delivered, or one of its
\* files ended in an error event.
Terminal(b) == DeliveredTo(b) # <<>> \/ \E r \in errors : r.b = b

\* C6 (as claimed): every started batch eventually reaches a terminal state.
C6_EveryBatchTerminates == \A b \in Batches : started[b] ~> Terminal(b)

\* What holds instead: a batch that runs alone, the only batch ever started
\* on the image element, reaches a terminal state.
LoneBatchTerminates ==
    (started[1] /\ [](\A b \in Batches : b # 1 => ~started[b])) ~> Terminal(1)

\* k is the substring of name before its first ".", the whole name when it
\* holds none.
IsLabelOf(k, name) ==
    /\ Len(k) <= Len(name)
    /\ \A j \in 1 .. Len(k) : k[j] = name[j] /\ k[j] # "."
    /\ Len(k) = Len(name) \/ name[Len(k) + 1] = "."

\* The output mapping of sample s has exactly the key the name yields, at 1.
OneHot(s, name) ==
    \E k \in DOMAIN s.output :
        DOMAIN s.output = {k} /\ IsLabelOf(k, name) /\ s.output[k] = 1

\* C7 (as claimed): every sample's output mapping has exactly one key, the
\* part of its file's name before the first ".", with value 1.
C7_OneHotOwnLabel ==
    \A b \in Batches : \A i \in 1 .. Len(images[b]) :
        OneHot(images[b][i], FileAt(files[b], i - 1).name)

\* What holds instead: the same for every file whose label is not __proto__,
\* and no sample ever holds a key of another file.
OneHotUnlessProto ==
    \A b \in Batches : \A i \in 1 .. Len(images[b]) :
        LET name == FileAt(files[b], i - 1).name IN
        IF IsLabelOf(ProtoKey, name)
        THEN DOMAIN images[b][i].output = {}
        ELSE OneHot(images[b][i], name)

\* C15: the cursor of a batch equals its number of recorded samples and
\* never exceeds the batch length; it is 0 when the batch starts and moves
\* only by one step forward, together with one successful extraction; the
\* i-th sample holds the pixels extracted from the i-th file, the file whose
\* name finishFile reads at the cursor.
C15_CursorCountsSamples ==
    /\ [](\A b \in Batches :
            /\ index[b] = Len(images[b])
            /\ index[b] <= Len(files[b])
            /\ Len(extracted[b]) = index[b]
            /\ \A i \in 1 .. Len(images[b]) :
                 /\ extracted[b][i].src = Source(b, i - 1)
                 /\ images[b][i].input = extracted[b][i].pixelData)
    /\ [][\A b \in Batches :
            /\ (~started[b] /\ started'[b]) => index'[b] = 0
            /\ \/ index'[b] = index[b] /\ extracted'[b] = extracted[b]
               \/ /\ index'[b] = index[b] + 1
                  /\ Len(extracted'[b]) = Len(extracted[b]) + 1]_vars

\* C15 witness: a batch has recorded two samples, its cursor twice advanced.
C15_Witness == \E b \in Batches : index[b] = 2 /\ Len(extracted[b]) = 2

\* C16 (as claimed): the vector extracted for an item depends only on the
\* item's own image: whatever was processed before them, two items with the
\* same image have the same vector.
C16_VectorOfOwnImage ==
    \A b1 \in Batches, b2 \in Batches :
        \A i1 \in 1 .. Len(extracted[b1]), i2 \in 1 .. Len(extracted[b2]) :
            FileOf(extracted[b1][i1].src).image = FileOf(extracted[b2][i2].src).image
                => extracted[b1][i1].pixelData = extracted[b2][i2].pixelData

\* An image has no transparent pixel.
Opaque(img) == \A c \in Cells(img.w, img.h) : img.px[c].a = 255

\* What holds instead: the same for the images without a transparent pixel.
SameVectorWhenOpaque ==
    \A b1 \in Batches, b2 \in Batches :
        \A i1 \in 1 .. Len(extracted[b1]), i2 \in 1 .. Len(extracted[b2]) :
            /\ FileOf(extracted[b1][i1].src).image = FileOf(extracted[b2][i2].src).image
            /\ Opaque(FileOf(extracted[b1][i1].src).image)
            => extracted[b1][i1].pixelData = extracted[b2][i2].pixelData

\* ------------------------------------------------------------ ImageProcess
\* PixelSpec: one ImageProcess, constructed with flip drawn from BOOLEAN, is
\* given one image (processFileReader or processCanvas) and the element's
\* load event calls loadData.

\* The sizes of the images of at most n pixels, the zero-size ones included.
Sizes(n) == {d \in (0 .. n) \X (0 .. n) : d[1] * d[2] <= n}

PixelInit ==
    /\ pxImage = None
    /\ pxFlip \in BOOLEAN
    /\ pxSurface = NewCanvas
    /\ pxCalls = <<>>
    /\ pxPc = "idle"

\* processFileReader / processCanvas (lines 210-221): loadImage(source) for
\* a source that decodes to img.
pxLoadImage(img) ==
    /\ pxPc = "idle"
    /\ pxImage' = img
    /\ pxPc' = "loading"
    /\ UNCHANGED <<pxFlip, pxSurface, pxCalls>>
    /\ UNCHANGED <<fileVars, stringVars, boardVars, emoteVars>>

\* img.onload (line 174): loadData draws the image, reads it back and hands
\* the vector to onFinish, unless getImageData threw.
pxOnload ==
    /\ pxPc = "loading"
    /\ LET ld == loadData(pxImage, pxSurface, pxFlip) IN
        /\ pxSurface' = ld.surface
        /\ pxCalls' = IF ld.threw THEN pxCalls ELSE Append(pxCalls, ld.pixelData)
        /\ pxPc' = IF ld.threw THEN "threw" ELSE "done"
    /\ UNCHANGED <<pxImage, pxFlip>>
    /\ UNCHANGED <<fileVars, stringVars, boardVars, emoteVars>>

PixelNext ==
    \/ \E d \in Sizes(MaxPixels) : \E px \in [Cells(d[1], d[2]) -> Palette] :
            pxLoadImage(Image(d[1], d[2], px))
    \/ pxOnload

\* The FileHandler and the worker keep their initial state under PixelSpec.
PixelStart == PixelInit /\ FileInit /\ StringIdle /\ BoardIdle /\ EmoteIdle

PixelSpec == PixelStart /\ [][PixelNext]_vars

\* The load event has been handled.
PxHandled == pxPc \in {"done", "threw"}

\* The red and green bytes read back for pixel (x, y) of the surface.
RedAt(surface, x, y) == ReadCell(surface, <<x, y>>)[1]
GreenAt(surface, x, y) == ReadCell(surface, <<x, y>>)[2]

\* The bit the rule asks for: 0 for a light pixel, 1 for a dark one, swapped
\* when inverted.
RuleBit(red, green, invert) ==
    LET light == red >= 200 \/ green >= 200
        bit == IF light THEN 0 ELSE 1
    IN IF invert THEN 1 - bit ELSE bit

\* The vector is in row-major order: pixel (x, y) is at position y * w + x.
RowMajor(vec, img, surface, flip) ==
    \A x \in 0 .. img.w - 1 : \A y \in 0 .. img.h - 1 :
        vec[y * img.w + x + 1] = RuleBit(RedAt(surface, x, y), GreenAt(surface, x, y), flip)

\* C8 (as claimed): for every image, a zero-size one included, onFinish is
\* called with one vector of length width * height in row-major order.
C8_VectorLength ==
    PxHandled =>
        /\ Len(pxCalls) = 1
        /\ Len(pxCalls[1]) = pxImage.w * pxImage.h
        /\ RowMajor(pxCalls[1], pxImage, pxSurface, pxFlip)

\* What holds instead: the same for every image of positive width and
\* height, and no call of onFinish at all for a zero-size one.
VectorLengthUnlessEmpty ==
    PxHandled =>
        IF pxImage.w > 0 /\ pxImage.h > 0
        THEN /\ pxPc = "done"
             /\ Len(pxCalls) = 1
             /\ Len(pxCalls[1]) = pxImage.w * pxImage.h
             /\ RowMajor(pxCalls[1], pxImage, pxSurface, pxFlip)
        ELSE pxPc = "threw" /\ pxCalls = <<>>

Quote == "\""
Backslash == "\\"
Newline == "\n"

RECURSIVE EscapeChars(_)
\* The characters of a JSON string literal for s: the quote and the
\* backslash are escaped.
EscapeChars(s) ==
    IF s = <<>> THEN <<>>
    ELSE (IF Head(s) \in {Quote, Backslash} THEN <<Backslash, Head(s)>> ELSE <<Head(s)>>)
         \o EscapeChars(Tail(s))

\* JSON.stringify of a string.
StringText(s) == <<Quote>> \o EscapeChars(s) \o <<Quote>>

\* JSON.stringify of one of the numbers a sample holds.
NumberText(n) == IF n = 0 THEN <<"0">> ELSE <<"1">>

RECURSIVE Join(_, _)
\* The texts of ts joined by sep.
Join(ts, sep) ==
    IF ts = <<>> THEN <<>>
    ELSE IF Len(ts) = 1 THEN Head(ts)
    ELSE Head(ts) \o sep \o Join(Tail(ts), sep)

\* JSON.stringify of an array of numbers.
ArrayText(a) == <<"[">> \o Join([k \in 1 .. Len(a) |-> NumberText(a[k])], <<",">>) \o <<"]">>

\* JSON.stringify of an output mapping, which holds at most one key.
ObjectText(o) ==
    <<"{">>
    \o (IF DOMAIN o = {} THEN <<>>
        ELSE LET k == CHOOSE key \in DOMAIN o : TRUE
             IN StringText(k) \o <<":">> \o NumberText(o[k]))
    \o <<"}">>

\* JSON.stringify of a sample {input, output}.
JSONstringify(sample) ==
    <<"{">> \o StringText(<<"i", "n", "p", "u", "t">>) \o <<":">> \o ArrayText(sample.input)
    \o <<",">> \o StringText(<<"o", "u", "t", "p", "u", "t">>) \o <<":">>
    \o ObjectText(sample.output) \o <<"}">>

RECURSIVE dataToString_noNewline(_)
\* The worker's dataToString without the newline after each sample.
dataToString_noNewline(passedObj) ==
    IF passedObj = <<>> THEN <<>>
    ELSE <<JSONstringify(Head(passedObj))>> \o dataToString_noNewline(Tail(passedObj))

RECURSIVE dataToString(_)
\* The worker's dataToString (lines 7-14): the arguments of its onUpdate
\* calls, in order; onFinish is called after the last.
dataToString(passedObj) ==
    IF passedObj = <<>> THEN <<>>
    ELSE <<JSONstringify(Head(passedObj)) \o <<Newline>>>> \o dataToString(Tail(passedObj))

RECURSIVE Accumulate(_, _)
\* data += d for each onUpdate call (line 20).
Accumulate(data, updates) ==
    IF updates = <<>> THEN data
    ELSE Accumulate(data \o Head(updates), Tail(updates))

\* onmessage (lines 16-22): the messages it posts for the message e.
onmessage(e) ==
    IF e.message = "stringify"
    THEN <<Accumulate(<<>>, dataToString(e.data))>>
    ELSE <<>>

RECURSIVE EmoteLoop(_, _)
\* The loop of Emote.dataToString (lines 434-436).
EmoteLoop(passedObj, output) ==
    IF passedObj = <<>> THEN output
    ELSE EmoteLoop(Tail(passedObj), output \o JSONstringify(Head(passedObj)) \o <<Newline>>)

\* Emote.dataToString (lines 431-438).
EmoteDataToString(passedObj) == EmoteLoop(passedObj, <<>>)

\* The samples a Dataset of StringSpec is made of.
Samples ==
    { createImageJSON(<<0, 1>>, <<"a">>),
      createImageJSON(<<1, 0>>, <<"b">>),
      createImageJSON(<<1>>, <<Quote, "q">>),
      createImageJSON(<<>>, <<>>),
      createImageJSON(<<0>>, ProtoKey) }

Datasets(n) == UNION {[1 .. k -> Samples] : k \in 0 .. n}

MessageNames == {"stringify", "ping"}

StringInit ==
    /\ strData \in Datasets(MaxSamples)
    /\ inbox = <<>>
    /\ posted = <<>>
    /\ handled = <<>>
    /\ emoteOut = <<>>

\* worker.postMessage({message, data}) by the page.
postToWorker(name) ==
    /\ Len(inbox) + Len(handled) < MaxMessages
    /\ inbox' = Append(inbox, [message |-> name, data |-> strData])
    /\ UNCHANGED <<strData, posted, handled, emoteOut>>
    /\ UNCHANGED <<fileVars, pixelVars, boardVars, emoteVars>>

\* The worker handles its next message.
workerOnmessage ==
    /\ inbox # <<>>
    /\ posted' = posted \o onmessage(Head(inbox))
    /\ handled' = Append(handled, Head(inbox).message)
    /\ inbox' = Tail(inbox)
    /\ UNCHANGED <<strData, emoteOut>>
    /\ UNCHANGED <<fileVars, pixelVars, boardVars, emoteVars>>

\* The train FileHandler's onFinish renders the Dataset (line 463).
emoteRender ==
    /\ emoteOut = <<>>
    /\ emoteOut' = <<EmoteDataToString(strData)>>
    /\ UNCHANGED <<strData, inbox, posted, handled>>
    /\ UNCHANGED <<fileVars, pixelVars, boardVars, emoteVars>>

StringNext ==
    \/ \E name \in MessageNames : postToWorker(name)
    \/ workerOnmessage
    \/ emoteRender

\* The FileHandler and ImageProcess keep their initial state under StringSpec.
StringStart == StringInit /\ FileInit /\ PixelIdle /\ BoardIdle /\ EmoteIdle

StringSpec == StringStart /\ [][StringNext]_vars

\* text is the JSON text of each sample of data, in order, each followed by
\* one newline: cut at the newlines it gives those texts and an empty rest.
OneSamplePerLine(text, data) ==
    split(text, Newline) = [k \in 1 .. Len(data) + 1 |->
                               IF k <= Len(data) THEN JSONstringify(data[k]) ELSE <<>>]

\* The Dataset of the spec's example and its text.
ExampleData == <<createImageJSON(<<0, 1>>, <<"a">>), createImageJSON(<<1, 0>>, <<"b">>)>>
ExampleLine1 ==
    <<"{", Quote, "i", "n", "p", "u", "t", Quote, ":", "[", "0", ",", "1", "]", ",",
      Quote, "o", "u", "t", "p", "u", "t", Quote, ":", "{", Quote, "a", Quote, ":", "1", "}", "}">>
ExampleLine2 ==
    <<"{", Quote, "i", "n", "p", "u", "t", Quote, ":", "[", "1", ",", "0", "]", ",",
      Quote, "o", "u", "t", "p", "u", "t", Quote, ":", "{", Quote, "b", Quote, ":", "1", "}", "}">>
ExampleText == ExampleLine1 \o <<Newline>> \o ExampleLine2 \o <<Newline>>

\* The "stringify" requests the worker has handled.
StringifyHandled == SelectSeq(handled, LAMBDA name : name = "stringify")

\* C10: the worker posts one message per "stringify" request and none for
\* another message; each posted text, and Emote's text, is one JSON text per
\* sample in Dataset order, each followed by a newline, with nothing around
\* them; the worker's text and Emote's are the same.
C10_OneJsonPerLine ==
    /\ Len(posted) = Len(StringifyHandled)
    /\ \A k \in 1 .. Len(posted) :
         /\ OneSamplePerLine(posted[k], strData)
         /\ strData = ExampleData => posted[k] = ExampleText
         /\ \A j \in 1 .. Len(emoteOut) : posted[k] = emoteOut[j]
    /\ \A j \in 1 .. Len(emoteOut) :
         /\ OneSamplePerLine(emoteOut[j], strData)
         /\ strData = ExampleData => emoteOut[j] = ExampleText

\* C10 witness: the example Dataset was posted and rendered, and the worker
\* has also handled a message that is no request.
C10_Witness ==
    /\ strData = ExampleData
    /\ Len(posted) = 1
    /\ emoteOut = posted
    /\ Len(handled) = 2

\* ---------------------------------------------------------- DrawingCanvas
\* BoardSpec: the DrawingCanvas under mouse events, Emote.clearBoard, and the
\* first capture of the board by Emote.processBoardData through the image
\* element "test-image".

\* clearRect(0, 0, 64, 64) (line 94): every cell transparent black.
clearRect(bd) == [c \in BoardCells |-> TransparentBlack]

\* clear (lines 93-96).
clear(bd) == fillWhite(clearRect(bd))

\* fillRect(x, y, 1, 1) in colour p (line 149): a cell outside the canvas
\* paints nothing; fill() and stroke() find an empty path.
fillRect(bd, x, y, p) == [c \in BoardCells |-> IF c = <<x, y>> THEN p ELSE bd[c]]

\* evt.button: 0 left, 1 middle, 2 right.
Buttons == {0, 1, 2}

\* The mousedown listener leaving the other flag as it was.
onMousedown_oneFlag(button, dr, er) ==
    IF button = 2
    THEN [drawing |-> dr, erasing |-> TRUE]
    ELSE [drawing |-> TRUE, erasing |-> er]

\* The mousedown listener (lines 111-119).
onMousedown(button, dr, er) ==
    IF button = 2
    THEN [drawing |-> FALSE, erasing |-> TRUE]
    ELSE [drawing |-> TRUE, erasing |-> FALSE]

\* The mouseup listener (lines 121-124).
onMouseup(dr, er) == [drawing |-> FALSE, erasing |-> FALSE]

\* The mouseleave listener (lines 126-128).
onMouseleave(dr, er) == [drawing |-> FALSE, erasing |-> er]

\* The mousemove listener (lines 135-152) for the cell (x, y) it computes.
onMousemove(bd, dr, er, x, y) ==
    IF ~dr /\ ~er THEN bd
    ELSE fillRect(bd, x, y, IF er THEN White ELSE Black)

\* What the image element's onload is when a capture set it: the loadData of
\* the ImageProcess made by processBoardData (line 423).
CaptureOwner == 0 - 1

\* toDataURL giving the picture of a cleared board.
toDataURL_cleared(bd) == Image(BoardW, BoardH, clear(bd))

\* canvas.toDataURL() (line 220): a PNG of the canvas as it is at the call.
toDataURL(bd) == Image(BoardW, BoardH, bd)

\* The source processCanvas hands to loadImage (line 220); at is history:
\* the board at the call.
CaptureSource(bd) == [b |-> 0, image |-> toDataURL(bd), at |-> bd]

\* The callback processBoardData gives its ImageProcess (lines 423-426).
boardOnFinish(data, td) == [testData |-> Vec(data), trainingData |-> td]

emoteRest == <<network, settingVars, networkChanged, statusText, outputText,
               stats, uncaught>>
elementVars == <<imgOnload, imgPending, imgCurrent>>
batchVars == <<files, started, index, images, canvas, reads, delivered,
               extracted, errors>>

mousedown(button) ==
    /\ LET md == onMousedown(button, drawing, erasing) IN
        /\ drawing' = md.drawing
        /\ erasing' = md.erasing
    /\ UNCHANGED <<board, fileVars, pixelVars, stringVars, emoteVars>>

mouseup ==
    /\ LET mu == onMouseup(drawing, erasing) IN
        /\ drawing' = mu.drawing
        /\ erasing' = mu.erasing
    /\ UNCHANGED <<board, fileVars, pixelVars, stringVars, emoteVars>>

mouseleave ==
    /\ LET ml == onMouseleave(drawing, erasing) IN
        /\ drawing' = ml.drawing
        /\ erasing' = ml.erasing
    /\ UNCHANGED <<board, fileVars, pixelVars, stringVars, emoteVars>>

\* A mousemove over the cell (x, y); Math.round gives 0 .. 64 within the
\* element, the last one outside the canvas.
mousemove(x, y) ==
    /\ board' = onMousemove(board, drawing, erasing, x, y)
    /\ UNCHANGED <<drawing, erasing, fileVars, pixelVars, stringVars, emoteVars>>

\* Emote.clearBoard (lines 415-417).
clearBoard ==
    /\ board' = clear(board)
    /\ UNCHANGED <<drawing, erasing, fileVars, pixelVars, stringVars, emoteVars>>

\* Emote.processBoardData (lines 422-429): a new ImageProcess on the element
\* "test-image", and processCanvas of the drawing canvas.
processBoardData ==
    /\ LET li == loadImage(CaptureOwner, CaptureSource(board)) IN
        /\ imgOnload' = li.onload
        /\ imgPending' = li.pending
    /\ UNCHANGED <<batchVars, imgCurrent, pixelVars, stringVars, boardVars>>
    /\ UNCHANGED <<emoteRest, trainingData, testData, testFrom>>

\* The load event of the image element for a captured board: loadData of the
\* capture's ImageProcess, on its own new renderCanvas, then the callback.
captureLoad ==
    /\ imgPending # None
    /\ imgPending.b = 0
    /\ LET ld == loadData(imgPending.image, NewCanvas, FALSE)
           cb == boardOnFinish(ld.pixelData, trainingData)
       IN IF ld.threw
          THEN UNCHANGED <<testData, trainingData, testFrom>>
          ELSE /\ testData' = cb.testData
               /\ trainingData' = cb.trainingData
               /\ testFrom' = <<[at |-> imgPending.at, changed |-> board # imgPending.at]>>
    /\ imgCurrent' = imgPending
    /\ imgPending' = None
    /\ UNCHANGED <<batchVars, imgOnload, pixelVars, stringVars, boardVars>>
    /\ UNCHANGED emoteRest

\* BoardSpec starts with a new DrawingCanvas and a training Dataset in place.
BoardStart ==
    /\ BoardIdle /\ FileInit /\ PixelIdle /\ StringIdle
    /\ network = None /\ testData = None
    /\ trainingData = Data(<<"s1">>)
    /\ layers = <<3>> /\ errorThreshold = 5 /\ iterations = 10
    /\ networkChanged = TRUE /\ useGpu = TRUE
    /\ statusText = "" /\ outputText = "" /\ stats = "element"
    /\ uncaught = "" /\ testFrom = <<>>

BoardNext ==
    \/ \E button \in Buttons : mousedown(button)
    \/ mouseup
    \/ mouseleave
    \/ \E x \in 0 .. BoardW, y \in 0 .. BoardH : mousemove(x, y)
    \/ clearBoard
    \/ imgOnload = 0 /\ processBoardData
    \/ captureLoad

BoardSpec == BoardStart /\ [][BoardNext]_vars

\* The vector of a board: row by row, 1 for a black cell and 0 for a white.
BoardVector(bd) ==
    [k \in 1 .. BoardW * BoardH |->
        IF bd[<<(k - 1) % BoardW, (k - 1) \div BoardW>>] = Black THEN 1 ELSE 0]

\* C11: testData set by a capture is the vector of the board as it was when
\* processBoardData was called, whatever was drawn, erased or cleared before
\* the load event; the capture leaves the training Dataset as it was.
C11_CaptureIsSnapshot ==
    /\ [](testFrom # <<>> =>
            testData = Vec(BoardVector(testFrom[1].at)))
    /\ [][trainingData' = trainingData]_vars

\* C11 witness: a capture was extracted after the board had changed.
C11_Witness ==
    /\ testFrom # <<>>
    /\ testFrom[1].changed
    /\ testData # None

\* The cells a step repaints, and the colour it gives them.
Painted(c, p) ==
    /\ board'[c] = p
    /\ \A d \in BoardCells : d # c => board'[d] = board[d]

\* C20: drawing and erasing are never both true; a mousemove paints at most
\* its one cell, black while drawing and white while erasing, and nothing
\* while neither holds; mouseup makes both false, and both stay false in
\* every step but a mousedown.
C20_DrawEraseExclusive ==
    /\ [](~(drawing /\ erasing))
    /\ [][\A x \in 0 .. BoardW, y \in 0 .. BoardH :
            mousemove(x, y) =>
                IF <<x, y>> \in BoardCells /\ (drawing \/ erasing)
                THEN Painted(<<x, y>>, IF drawing THEN Black ELSE White)
                ELSE board' = board]_vars
    /\ [][mouseup => (~drawing' /\ ~erasing')]_vars
    /\ [][(~drawing /\ ~erasing /\ ~(\E button \in Buttons : mousedown(button)))
            => (~drawing' /\ ~erasing')]_vars

\* C20 witness: a cell was painted black, and the canvas is now erasing.
C20_Witness == erasing /\ \E c \in BoardCells : board[c] = Black

\* ------------------------------------------- batches and captures together
\* ShareSpec: the FileHandler on the element "test-image" (Spec's batches)
\* together with captures of the drawing board through the same element.

\* A board with one cell drawn black.
DrawnBoard ==
    fillRect(fillWhite([c \in BoardCells |-> TransparentBlack]), 0, 0, Black)

\* ShareSpec starts with something drawn on the board; clearBoard makes it
\* white again.
ShareStart ==
    /\ FileInit /\ PixelIdle /\ StringIdle /\ EmoteIdle
    /\ board = DrawnBoard
    /\ drawing = FALSE /\ erasing = FALSE

\* The files of ShareSpec's batches: both can be read and decoded.
ShareFiles == {"cat", "dog"}
ShareLists(n) == UNION {[1 .. k -> ShareFiles] : k \in 0 .. n}

ShareNext ==
    \/ \E b \in Batches : \E fs \in ShareLists(MaxFiles - FilesSubmitted) : onSelectFiles(b, fs)
    \/ \E r \in reads : fileReaderLoad(r)
    \/ imgLoad
    \/ clearBoard
    \/ processBoardData
    \/ captureLoad

ShareSpec == ShareStart /\ [][ShareNext]_vars

\* The load of a file of batch b was replaced on the image element: the
\* batch stands at a file that is neither being read nor loaded and met no
\* error.
Superseded(b) ==
    /\ started[b] /\ index[b] < Len(files[b])
    /\ ReadsInFlight(b) = {} /\ DecodesInFlight(b) = {}
    /\ \A r \in errors : r.b # b

\* C17: whatever batches and captures overlap on the shared image element,
\* every vector a batch records was extracted from a file of that batch, the
\* file at its position, every sample pairs those pixels with no label but
\* that file's, every delivered Dataset holds the samples of its own batch,
\* and testData set by a capture is the vector of that capture's board.
C17_ResultsOfOwnSubmission ==
    /\ \A b \in Batches : \A i \in 1 .. Len(images[b]) :
         /\ extracted[b][i].src = Source(b, i - 1)
         /\ images[b][i].input = extracted[b][i].pixelData
         /\ \A k \in DOMAIN images[b][i].output :
              IsLabelOf(k, FileAt(files[b], i - 1).name)
    /\ \A n \in 1 .. Len(delivered) :
         /\ delivered[n].data = images[delivered[n].b]
         /\ Len(delivered[n].data) = Len(files[delivered[n].b])
    /\ testFrom # <<>> => testData = Vec(BoardVector(testFrom[1].at))

\* C17 witness: a capture replaced the pending load of a batch and was
\* extracted, and another batch was delivered with a sample.
C17_Witness ==
    /\ testFrom # <<>>
    /\ \E b \in Batches : Superseded(b)
    /\ \E n \in 1 .. Len(delivered) : Len(delivered[n].data) >= 1

\* ------------------------------------------------------------------- Emote
\* EmoteSpec: the train and test buttons, the settings listeners, and the
\* callbacks that set trainingData and testData.  brain.js is outside the
\* repository: whether its constructor and its train throw is an input of
\* the train action.

\* JS values of two types, for the strict comparison of line 486.
JSString(s) == [type |-> "string", val |-> s]
JSNumber(n) == [type |-> "number", val |-> n]
StrictEquals(a, b) == a.type = b.type /\ a.val = b.val

\* The value of the element "gpu" is a string.
GpuValues == {JSString("on"), JSString("0")}

\* document.getElementById("gpu").value !== 0 (lines 486, 494).
GpuSetting(value) == ~StrictEquals(value, JSNumber(0))

\* The texts of the settings inputs; the last of each is not JSON.
LayerTexts == {"[3]", "[2,2]", "[3"}
ThresholdTexts == {"0.005", "0.01", "0,01"}
IterationTexts == {"10", "20", "ten"}

\* JSON.parse (lines 471-481, 491-493).  Thresholds are in thousandths.
JSONparse(text) ==
    CASE text = "[3]"   -> [threw |-> FALSE, value |-> <<3>>]
      [] text = "[2,2]" -> [threw |-> FALSE, value |-> <<2, 2>>]
      [] text = "0.005" -> [threw |-> FALSE, value |-> 5]
      [] text = "0.01"  -> [threw |-> FALSE, value |-> 10]
      [] text = "10"    -> [threw |-> FALSE, value |-> 10]
      [] text = "20"    -> [threw |-> FALSE, value |-> 20]
      [] OTHER          -> [threw |-> TRUE, value |-> 0]

Parsed(texts) == {JSONparse(t).value : t \in {u \in texts : ~JSONparse(u).threw}}

\* new Network(layerList, errorThreshold, iterations, gpu) (lines 32-63):
\* init makes the brain network, on the GPU when gpu is true; trainedOn is
\* the data its last successful train was given, none at first.
Network(layerList, errThreshold, iters, gpu) ==
    [layers |-> layerList, errorThreshold |-> errThreshold,
     iterations |-> iters, gpu |-> gpu, trainedOn |-> <<>>]

\* The default of Network's parameter gpu (line 32).
GpuDefault == FALSE

\* Network.train (lines 41-43) when net.train returns.
NetworkTrain(net, data) == [net EXCEPT !.trainedOn = <<data>>]

\* Network.test (lines 51-53): brain.likely gives null for a network that
\* was not trained (line 46), a label otherwise.
NetworkTest(net, vec) == IF net.trainedOn = <<>> THEN "null" ELSE "label"

\* JSON.stringify(stats, null, 2) (line 392): stats is the result of the
\* last training that returned, and until then the element with id "stats",
\* which the global name resolves to.
StatsText(st) == IF st = "element" THEN "{}" ELSE "{error, iterations}"

\* Emote's state as the handlers see it.
EmoteState ==
    [network |-> network, trainingData |-> trainingData, testData |-> testData,
     layers |-> layers, errorThreshold |-> errorThreshold,
     iterations |-> iterations, networkChanged |-> networkChanged,
     statusText |-> statusText, outputText |-> outputText, stats |-> stats,
     uncaught |-> ""]

\* trainingData == null || trainingData.length <= 0 (line 367).
NoTrainingData(td) == IF td = None THEN TRUE ELSE Len(td.data) <= 0

\* testData == null || testData.length <= 0 (line 402).
NoTestData(td) == IF td = None THEN TRUE ELSE Len(td.vec) <= 0

\* clearOutput (lines 358-361).
clearOutput(st) == [st EXCEPT !.statusText = "", !.outputText = ""]

\* Emote.train from line 372 on: ctorThrows and trainThrows tell whether
\* new brain.NeuralNetwork and net.train throw.
trainNetwork(st, ctorThrows, trainThrows) ==
    IF ~(st.network = None \/ st.networkChanged)
    THEN st
    ELSE LET created == IF ctorThrows
                        THEN [st EXCEPT !.statusText = "Error tijdens het trainen!"]
                        ELSE [st EXCEPT !.network =
                                Network(st.layers, st.errorThreshold,
                                        st.iterations, GpuDefault)]
             cleared == [clearOutput(created) EXCEPT !.statusText = "Training network..."]
             trained == IF cleared.network = None \/ trainThrows
                        THEN [cleared EXCEPT !.statusText = "Error tijdens het trainen!"]
                        ELSE [cleared EXCEPT
                                !.network = NetworkTrain(@, st.trainingData.data),
                                !.stats = "result"]
         IN [trained EXCEPT !.statusText = StatsText(trained.stats),
                            !.networkChanged = FALSE]

\* Emote.train without its check of trainingData.
train_unchecked(st, ctorThrows, trainThrows) ==
    trainNetwork([st EXCEPT !.trainingData = IF @ = None THEN Data(<<>>) ELSE @],
                 ctorThrows, trainThrows)

\* Emote.train (lines 366-396).
train(st, ctorThrows, trainThrows) ==
    IF NoTrainingData(st.trainingData)
    THEN [st EXCEPT !.statusText = "Geen train data!"]
    ELSE trainNetwork(st, ctorThrows, trainThrows)

\* Emote.test (lines 401-410): network.test on a null network throws a
\* TypeError, which nothing catches.
test(st) ==
    IF NoTestData(st.testData)
    THEN [st EXCEPT !.outputText = "Test mislukt. Geen data om te testen!"]
    ELSE LET cleared == clearOutput(st) IN
         IF cleared.network = None
         THEN [cleared EXCEPT !.uncaught = "TypeError"]
         ELSE [cleared EXCEPT !.outputText =
                 IF NetworkTest(cleared.network, cleared.testData.vec) = "null"
                 THEN "Test result: null" ELSE "Test result: label"]

\* The state a handler leaves.
Becomes(st) ==
    /\ network' = st.network
    /\ trainingData' = st.trainingData
    /\ testData' = st.testData
    /\ layers' = st.layers
    /\ errorThreshold' = st.errorThreshold
    /\ iterations' = st.iterations
    /\ networkChanged' = st.networkChanged
    /\ statusText' = st.statusText
    /\ outputText' = st.outputText
    /\ stats' = st.stats
    /\ uncaught' = st.uncaught
    /\ UNCHANGED <<useGpu, testFrom>>
    /\ UNCHANGED <<fileVars, pixelVars, stringVars, boardVars>>

\* The train button.
emoteTrain(ctorThrows, trainThrows) ==
    Becomes(train(EmoteState, ctorThrows, trainThrows))

\* The test button.
emoteTest == Becomes(test(EmoteState))

\* The samples of the training datasets.
TrainSets == {<<>>, <<"s1">>, <<"s2">>}

\* The vectors test data is made of.
TestVectors == {<<0>>, <<1>>}
TestLists == {<<>>} \cup {<<[input |-> v]>> : v \in TestVectors}

\* onFinish of fileHandlerTrain (lines 460-465).
onTrainData(dataList) ==
    Becomes([EmoteState EXCEPT !.trainingData = Data(dataList),
                               !.networkChanged = TRUE])

\* onFinish of fileHandlerTest (lines 446-454): dataList[0] is undefined
\* for an empty list, and reading its input throws.
onTestData(dataList) ==
    Becomes(IF Len(dataList) < 1
            THEN [EmoteState EXCEPT !.uncaught = "TypeError"]
            ELSE [EmoteState EXCEPT !.testData = Vec(dataList[1].input)])

\* The callback of processBoardData (lines 423-426) with an extracted vector.
onBoardData(data) ==
    LET cb == boardOnFinish(data, trainingData)
    IN Becomes([EmoteState EXCEPT !.testData = cb.testData,
                                  !.trainingData = cb.trainingData])

\* The change listener of "layers" (lines 470-473).
changeLayers(text) ==
    LET v == JSONparse(text)
    IN Becomes(IF v.threw
               THEN [EmoteState EXCEPT !.uncaught = "SyntaxError"]
               ELSE [EmoteState EXCEPT !.layers = v.value,
                                       !.networkChanged = TRUE])

\* The change listener of "errorThresh" (lines 475-478).
changeErrorThresh(text) ==
    LET v == JSONparse(text)
    IN Becomes(IF v.threw
               THEN [EmoteState EXCEPT !.uncaught = "SyntaxError"]
               ELSE [EmoteState EXCEPT !.errorThreshold = v.value,
                                       !.networkChanged = TRUE])

\* The change listener of "iterations" (lines 480-483).
changeIterations(text) ==
    LET v == JSONparse(text)
    IN Becomes(IF v.threw
               THEN [EmoteState EXCEPT !.uncaught = "SyntaxError"]
               ELSE [EmoteState EXCEPT !.iterations = v.value,
                                       !.networkChanged = TRUE])

\* The change listener of "gpu" (lines 485-488).
changeGpu(value) ==
    /\ useGpu' = GpuSetting(value)
    /\ networkChanged' = TRUE
    /\ uncaught' = ""
    /\ UNCHANGED <<network, trainingData, testData, layers, errorThreshold,
                   iterations, statusText, outputText, stats, testFrom>>
    /\ UNCHANGED <<fileVars, pixelVars, stringVars, boardVars>>

\* Emote after the load listener (lines 441-495) has read the settings the
\* page shows.
EmoteInit ==
    /\ network = None /\ trainingData = None /\ testData = None
    /\ layers \in Parsed(LayerTexts)
    /\ errorThreshold \in Parsed(ThresholdTexts)
    /\ iterations \in Parsed(IterationTexts)
    /\ networkChanged = TRUE
    /\ useGpu \in {GpuSetting(g) : g \in GpuValues}
    /\ statusText = "" /\ outputText = "" /\ stats = "element"
    /\ uncaught = "" /\ testFrom = <<>>

EmoteStart == EmoteInit /\ FileInit /\ PixelIdle /\ StringIdle /\ BoardIdle

EmoteNext ==
    \/ \E ctorThrows \in BOOLEAN, trainThrows \in BOOLEAN :
          emoteTrain(ctorThrows, trainThrows)
    \/ emoteTest
    \/ \E d \in TrainSets : onTrainData(d)
    \/ \E d \in TestLists : onTestData(d)
    \/ \E v \in TestVectors : onBoardData(v)
    \/ \E t \in LayerTexts : changeLayers(t)
    \/ \E t \in ThresholdTexts : changeErrorThresh(t)
    \/ \E t \in IterationTexts : changeIterations(t)
    \/ \E g \in GpuValues : changeGpu(g)

EmoteSpec == EmoteStart /\ [][EmoteNext]_vars

\* A step of the train button that gets past the checks of lines 367-381.
TrainsWith(ctorThrows, trainThrows) ==
    /\ emoteTrain(ctorThrows, trainThrows)
    /\ ~NoTrainingData(trainingData)
    /\ (IF network = None THEN TRUE ELSE networkChanged)

\* No training that returned has touched the network.
Untrained(net) == IF net = None THEN TRUE ELSE net.trainedOn = <<>>

\* C12 (as claimed): pressing test with test data present and no trained
\* network shows the result null and throws nothing.
C12_UntrainedTestYieldsNull ==
    [][(emoteTest /\ ~NoTestData(testData) /\ Untrained(network))
        => (uncaught' = "" /\ outputText' = "Test result: null")]_vars

\* What holds instead: the same once train has constructed a network.
ConstructedUntrainedYieldsNull ==
    [][(emoteTest /\ ~NoTestData(testData) /\ Untrained(network) /\ network # None)
        => (uncaught' = "" /\ outputText' = "Test result: null")]_vars

\* C13 (as claimed): when the network cannot be created from the current
\* configuration, train leaves the error message in the status area, does
\* not train, and leaves the network and the test vector as they were.
C13_CreationFailureLeavesState ==
    [][\A trainThrows \in BOOLEAN :
        TrainsWith(TRUE, trainThrows)
            => /\ statusText' = "Error tijdens het trainen!"
               /\ network' = network
               /\ testData' = testData]_vars

\* What holds instead: the test vector is left as it was.
CreationFailureKeepsTestData ==
    [][\A trainThrows \in BOOLEAN :
        TrainsWith(TRUE, trainThrows) => testData' = testData]_vars

\* C14 (as claimed): the network train creates has the selected error
\* threshold and iterations, and runs on the GPU exactly when useGpu is true.
C14_TrainsWithSelectedConfig ==
    [][\A trainThrows \in BOOLEAN :
        TrainsWith(FALSE, trainThrows)
            => /\ network'.errorThreshold = errorThreshold
               /\ network'.iterations = iterations
               /\ network'.gpu = useGpu]_vars

\* What holds instead: the network has the selected layers, error threshold
\* and iterations, and never runs on the GPU.
TrainsOnCpuWithSelectedConfig ==
    [][\A trainThrows \in BOOLEAN :
        TrainsWith(FALSE, trainThrows)
            => /\ network'.layers = layers
               /\ network'.errorThreshold = errorThreshold
               /\ network'.iterations = iterations
               /\ ~network'.gpu]_vars

\* The network was created with the current settings and its last training
\* returned for the current training data.
TrainedOnCurrent ==
    IF network = None \/ trainingData = None THEN FALSE
    ELSE /\ network.trainedOn = <<trainingData.data>>
         /\ network.layers = layers
         /\ network.errorThreshold = errorThreshold
         /\ network.iterations = iterations

\* C18 (as claimed): networkChanged is false only when the network exists
\* and was successfully trained on the current trainingData with the current
\* layers, errorThreshold and iterations.
C18_UnchangedMeansTrained == ~networkChanged => TrainedOnCurrent

\* What holds instead: every change of a setting and every new training
\* dataset sets networkChanged, and train changes nothing when it is false
\* and a network exists.
ChangeSetsNetworkChanged ==
    [][/\ (layers' # layers \/ errorThreshold' # errorThreshold
             \/ iterations' # iterations \/ trainingData' # trainingData)
            => networkChanged'
       /\ \A ctorThrows \in BOOLEAN, trainThrows \in BOOLEAN :
            (emoteTrain(ctorThrows, trainThrows) /\ ~networkChanged /\ network # None)
                => UNCHANGED <<network, statusText, outputText, stats, networkChanged>>]_vars

\* C19: train with trainingData null or empty shows the missing-data message
\* and changes nothing else: network, networkChanged and every other
\* variable of Emote keep their values.
C19_NoDataTrainChangesNothing ==
    [][\A ctorThrows \in BOOLEAN, trainThrows \in BOOLEAN :
        (emoteTrain(ctorThrows, trainThrows) /\ NoTrainingData(trainingData))
            => /\ statusText' = "Geen train data!"
               /\ UNCHANGED <<network, networkChanged, trainingData, testData,
                              settingVars, outputText, stats>>]_vars

\* C19 witness: train was refused for an empty dataset after a network had
\* been trained.
C19_Witness ==
    /\ statusText = "Geen train data!"
    /\ trainingData = Data(<<>>)
    /\ ~Untrained(network)

====
